---- MODULE Spec2Model ----
(***************************************************************************)
(* Model of the betting-markets program                                    *)
(* (src/programs/betting-markets/src/lib.rs).                              *)
(*                                                                         *)
(* One action per instruction.  An instruction is one atomic transaction:  *)
(* when a require! fails, the token transfer fails or an arithmetic        *)
(* overflow panics, every account is left as it was before the call and    *)
(* only the reported error is observed (variable result).                  *)
(*                                                                         *)
(* u64 is modelled with modulus U64Mod (a scaled-down 2^64) and the u128   *)
(* intermediate of the payout with an unbounded product.  Fields that no   *)
(* instruction ever reads (question, created_at, timestamp) and the        *)
(* emitted events are left out.                                            *)
(***************************************************************************)
EXTENDS Integers, Sequences, FiniteSets, TLC

(* ------------------------------ bounds -------------------------------- *)
\* number of markets that may be created
MaxMarkets == 2
\* number of bet accounts that may be created
MaxBets == 2
\* the clock runs from 0 to MaxTime
MaxTime == 2
\* largest stake offered as an input, and the supply of the token
MaxAmount == 2

\* The modulus standing for 2^64.  A single stake can be of the order of 2^64
\* (two maximal stakes overflow a pool), the token's supply is below it, and the
\* number of markets ever created is far below it.
U64Mod == 2 * MaxAmount

\* signers (Pubkeys)
Keys == {"alice", "bob"}
\* tokens each signer's token account holds at the start
InitialFunds == [k \in Keys |-> IF k = "alice" THEN MaxAmount ELSE 0]

\* inputs of create_market
OutcomeCounts == {1, 2, 10, 11}
ResolutionTimes == 0..MaxTime
MinBets == {0, 1}
\* inputs of place_bet / resolve_market (outcome_index: u8)
OutcomeIndexes == {0, 1, 10}
Amounts == 0..MaxAmount

\* token accounts: one per signer, one whose authority is each market PDA
Wallet(k) == <<"wallet", k>>
Vault(id) == <<"vault", id>>
Vaults == {Vault(id) : id \in 0..(MaxMarkets - 1)}
TokenAccounts == {Wallet(k) : k \in Keys} \cup Vaults

\* Option<u8>::None
None == -1

VARIABLES
    global_state,    \* GlobalState account: [market_count]
    markets,         \* Market accounts, keyed by the PDA seed (a market_count value)
    bets,            \* Bet accounts, in creation order; the index is the account key
    balances,        \* amount held by each token account
    now,             \* Clock::get()?.unix_timestamp
    overflow_checks, \* build profile: TRUE = arithmetic overflow panics, FALSE = it wraps
    paid,            \* history: per market key, the payouts transferred by claims against it
    in_flight,       \* the claim_payout calls whose token transfer is in progress (a stack)
    result           \* what the last instruction reported: [op, err]

vars == <<global_state, markets, bets, balances, now, overflow_checks, paid, in_flight, result>>
accounts == <<global_state, markets, bets, balances>>

(* ------------------------------ helpers ------------------------------- *)
RECURSIVE SumSeq(_)
SumSeq(s) == IF s = <<>> THEN 0 ELSE Head(s) + SumSeq(Tail(s))

\* vec![0; n]
Zeros(n) == [i \in 1..n |-> 0]

\* u64 `+=`: panics when the sum does not fit and the build checks overflow,
\* and wraps around otherwise
AddPanics(a, b) == overflow_checks /\ a + b >= U64Mod

AddU64(a, b) == (a + b) % U64Mod

\* mutant: the outcome of the transfer is ignored
TransferOk_Ignored(from, amount) == TRUE

\* token::transfer of the SPL token program: fails on insufficient funds,
\* and a transfer of an account to itself changes nothing
TransferOk(from, amount) == balances[from] >= amount

Transfer(from, to, amount) ==
    IF from = to THEN balances
    ELSE [balances EXCEPT ![from] = @ - amount, ![to] = @ + amount]

Report(op, err) == result' = [op |-> op, err |-> err]

Fail(op, err) == Report(op, err) /\ UNCHANGED <<accounts, now, overflow_checks, paid, in_flight>>

(* ------------------------------- Init --------------------------------- *)
\* the state after initialize: market_count = 0, no market, no bet
Init ==
    /\ global_state = [market_count |-> 0]
    /\ markets = <<>>
    /\ bets = <<>>
    /\ balances = [a \in TokenAccounts |->
                     IF a[1] = "wallet" THEN InitialFunds[a[2]] ELSE 0]
    /\ now = 0
    /\ overflow_checks \in BOOLEAN
    /\ paid = [id \in 0..(MaxMarkets - 1) |-> 0]
    /\ in_flight = <<>>
    /\ result = [op |-> "initialize", err |-> "Ok"]

(* --------------------------- create_market ---------------------------- *)
\* mutant: the upper bound on the number of outcomes is off by one
create_market_check_Eleven(n_outcomes, resolution_time) ==
    IF ~(n_outcomes >= 2) THEN "InsufficientOutcomes"
    ELSE IF ~(n_outcomes <= 11) THEN "TooManyOutcomes"
    ELSE IF ~(resolution_time > now) THEN "InvalidResolutionTime"
    ELSE "Ok"

create_market_check(n_outcomes, resolution_time) ==
    IF ~(n_outcomes >= 2) THEN "InsufficientOutcomes"
    ELSE IF ~(n_outcomes <= 10) THEN "TooManyOutcomes"
    ELSE IF ~(resolution_time > now) THEN "InvalidResolutionTime"
    ELSE "Ok"

NewMarket(authority, n_outcomes, resolution_time, min_bet) ==
    [ authority       |-> authority,
      outcomes        |-> [i \in 1..n_outcomes |-> i],
      outcome_pools   |-> Zeros(n_outcomes),
      resolution_time |-> resolution_time,
      min_bet         |-> min_bet,
      resolved        |-> FALSE,
      winning_outcome |-> None,
      total_pool      |-> 0,
      market_id       |-> global_state.market_count ]

\* mutant: the increment of market_count is forgotten
NextMarketCount_Stuck == global_state.market_count

\* global_state.market_count += 1
NextMarketCount == AddU64(global_state.market_count, 1)

create_market(authority, n_outcomes, resolution_time, min_bet) ==
    LET key == global_state.market_count    \* seeds = [b"market", market_count]
        err == create_market_check(n_outcomes, resolution_time)
    IN  IF key \in DOMAIN markets
        THEN Fail("create_market", "AccountInUse")      \* `init` of an existing account
        ELSE IF err # "Ok"
        THEN Fail("create_market", err)
        ELSE IF AddPanics(global_state.market_count, 1)
        THEN Fail("create_market", "Panic")
        ELSE /\ markets' = (key :> NewMarket(authority, n_outcomes, resolution_time, min_bet))
                             @@ markets
             /\ global_state' = [global_state EXCEPT !.market_count = NextMarketCount]
             /\ Report("create_market", "Ok")
             /\ UNCHANGED <<bets, balances, now, overflow_checks, paid, in_flight>>

(* ------------------------------ place_bet ----------------------------- *)
\* mutant: a bet is still accepted at the deadline itself
place_bet_check_AtDeadline(market, outcome_index, amount) ==
    IF ~(~market.resolved) THEN "MarketResolved"
    ELSE IF ~(now <= market.resolution_time) THEN "BettingClosed"
    ELSE IF ~(amount >= market.min_bet) THEN "BetTooSmall"
    ELSE IF ~(outcome_index < Len(market.outcomes)) THEN "InvalidOutcome"
    ELSE "Ok"

\* mutant: the minimum bet is not enforced
place_bet_check_NoMinimum(market, outcome_index, amount) ==
    IF ~(~market.resolved) THEN "MarketResolved"
    ELSE IF ~(now < market.resolution_time) THEN "BettingClosed"
    ELSE IF ~(outcome_index < Len(market.outcomes)) THEN "InvalidOutcome"
    ELSE "Ok"

place_bet_check(market, outcome_index, amount) ==
    IF ~(~market.resolved) THEN "MarketResolved"
    ELSE IF ~(now < market.resolution_time) THEN "BettingClosed"
    ELSE IF ~(amount >= market.min_bet) THEN "BetTooSmall"
    ELSE IF ~(outcome_index < Len(market.outcomes)) THEN "InvalidOutcome"
    ELSE "Ok"

NewBet(bettor, m, outcome_index, amount) ==
    [ bettor        |-> bettor,
      market        |-> m,
      outcome_index |-> outcome_index,
      amount        |-> amount,
      claimed       |-> FALSE ]

\* market.outcome_pools[outcome_index as usize] += amount
AddToOutcomePool(market, outcome_index, amount) ==
    AddU64(market.outcome_pools[outcome_index + 1], amount)

\* market.total_pool += amount
AddToTotalPool(market, amount) == AddU64(market.total_pool, amount)

place_bet(m, bettor, outcome_index, amount, to) ==
    LET market == markets[m]
        err    == place_bet_check(market, outcome_index, amount)
        from   == Wallet(bettor)
    IN  IF err # "Ok"
        THEN Fail("place_bet", err)
        ELSE IF ~TransferOk(from, amount)
        THEN Fail("place_bet", "TransferFailed")
        ELSE IF AddPanics(market.outcome_pools[outcome_index + 1], amount)
                \/ AddPanics(market.total_pool, amount)
        THEN Fail("place_bet", "Panic")
        ELSE /\ bets' = Append(bets, NewBet(bettor, m, outcome_index, amount))
             /\ balances' = Transfer(from, to, amount)
             /\ markets' = [markets EXCEPT
                    ![m].outcome_pools[outcome_index + 1] =
                        AddToOutcomePool(market, outcome_index, amount),
                    ![m].total_pool = AddToTotalPool(market, amount)]
             /\ Report("place_bet", "Ok")
             /\ UNCHANGED <<global_state, now, overflow_checks, paid, in_flight>>

(* ---------------------------- resolve_market -------------------------- *)
\* mutant: a resolved market can be resolved again
resolve_market_check_Again(market, signer, winning_outcome_index) ==
    IF ~(signer = market.authority) THEN "Unauthorized"
    ELSE IF ~(now >= market.resolution_time) THEN "TooEarlyToResolve"
    ELSE IF ~(winning_outcome_index < Len(market.outcomes)) THEN "InvalidOutcome"
    ELSE "Ok"

\* mutant: the signer is not compared with the market's authority
resolve_market_check_AnySigner(market, signer, winning_outcome_index) ==
    IF ~(~market.resolved) THEN "MarketAlreadyResolved"
    ELSE IF ~(now >= market.resolution_time) THEN "TooEarlyToResolve"
    ELSE IF ~(winning_outcome_index < Len(market.outcomes)) THEN "InvalidOutcome"
    ELSE "Ok"

resolve_market_check(market, signer, winning_outcome_index) ==
    IF ~(signer = market.authority) THEN "Unauthorized"
    ELSE IF ~(~market.resolved) THEN "MarketAlreadyResolved"
    ELSE IF ~(now >= market.resolution_time) THEN "TooEarlyToResolve"
    ELSE IF ~(winning_outcome_index < Len(market.outcomes)) THEN "InvalidOutcome"
    ELSE "Ok"

\* mutant: resolving also empties the market's total_pool
Resolved_PoolReset(market, winning_outcome_index) ==
    [market EXCEPT !.resolved = TRUE, !.winning_outcome = winning_outcome_index,
                   !.total_pool = 0]

Resolved(market, winning_outcome_index) ==
    [market EXCEPT !.resolved = TRUE, !.winning_outcome = winning_outcome_index]

resolve_market(m, signer, winning_outcome_index) ==
    LET market == markets[m]
        err    == resolve_market_check(market, signer, winning_outcome_index)
    IN  IF err # "Ok"
        THEN Fail("resolve_market", err)
        ELSE /\ markets' = [markets EXCEPT ![m] = Resolved(market, winning_outcome_index)]
             /\ Report("resolve_market", "Ok")
             /\ UNCHANGED <<global_state, bets, balances, now, overflow_checks, paid, in_flight>>

(* ----------------------------- claim_payout --------------------------- *)
\* mutant: with an empty winning pool the stake is paid back
Payout_EmptyPoolRefund(market, bet) ==
    LET winning_pool == market.outcome_pools[market.winning_outcome + 1]
    IN  IF winning_pool > 0
        THEN ((bet.amount * market.total_pool) \div winning_pool) % U64Mod
        ELSE bet.amount

\* (bet.amount as u128 * market.total_pool as u128 / winning_pool as u128) as u64
Payout(market, bet) ==
    LET winning_pool == market.outcome_pools[market.winning_outcome + 1]
    IN  IF winning_pool > 0
        THEN ((bet.amount * market.total_pool) \div winning_pool) % U64Mod
        ELSE 0

\* mutant: the claimant is not compared with the bet's owner
claim_payout_check_AnyClaimant(market, bet, signer) ==
    IF ~market.resolved THEN "MarketNotResolved"
    ELSE IF ~(~bet.claimed) THEN "AlreadyClaimed"
    ELSE IF ~(bet.outcome_index = market.winning_outcome) THEN "LosingBet"
    ELSE IF ~(Payout(market, bet) > 0) THEN "NoPayoutAvailable"
    ELSE "Ok"

claim_payout_check(market, bet, signer) ==
    IF ~market.resolved THEN "MarketNotResolved"
    ELSE IF ~(~bet.claimed) THEN "AlreadyClaimed"
    ELSE IF ~(bet.bettor = signer) THEN "Unauthorized"
    ELSE IF ~(bet.outcome_index = market.winning_outcome) THEN "LosingBet"
    ELSE IF ~(Payout(market, bet) > 0) THEN "NoPayoutAvailable"
    ELSE "Ok"

\* mutant: a claim takes its payout off the market's total_pool
MarketAfterClaim_PoolDebited(market, payout) ==
    [market EXCEPT !.total_pool = @ - payout]

\* let market = &ctx.accounts.market: claim_payout only reads the market
MarketAfterClaim(market, payout) == market

\* the market account signs for the source account: only a token account whose
\* authority is that market's PDA can be debited
claim_payout(b, m, signer, from) ==
    LET market == markets[m]
        bet    == bets[b]
        err    == claim_payout_check(market, bet, signer)
        payout == Payout(market, bet)
        to     == Wallet(signer)
    IN  IF err # "Ok"
        THEN Fail("claim_payout", err)
        ELSE IF ~(from = Vault(m) /\ TransferOk(from, payout))
        THEN Fail("claim_payout", "TransferFailed")
        ELSE /\ bets' = [bets EXCEPT ![b].claimed = TRUE]
             /\ balances' = Transfer(from, to, payout)
             /\ markets' = [markets EXCEPT ![m] = MarketAfterClaim(market, payout)]
             /\ paid' = [paid EXCEPT ![m] = @ + payout]
             /\ Report("claim_payout", "Ok")
             /\ UNCHANGED <<global_state, now, overflow_checks, in_flight>>

\* claim_payout at the grain of its statements: the checks and the write of
\* claimed (lib.rs:131-148), then the token transfer (lib.rs:151-166).  The
\* call in progress keeps the accounts as they were on entry: when its
\* transfer fails, the whole instruction is rolled back to them.

\* mutant: claimed is written only once the transfer has returned
MarkClaimed_AfterTransfer(b) == bets

\* bet.claimed = true
MarkClaimed(b) == [bets EXCEPT ![b].claimed = TRUE]

claim_payout_enter(b, m, signer, from) ==
    LET market == markets[m]
        bet    == bets[b]
        err    == claim_payout_check(market, bet, signer)
    IN  IF err # "Ok"
        THEN Fail("claim_payout", err)
        ELSE /\ bets' = MarkClaimed(b)
             /\ in_flight' = Append(in_flight,
                    [ bet |-> b, market |-> m, bettor |-> signer, from |-> from,
                      payout |-> Payout(market, bet),
                      saved |-> <<bets, balances, paid>> ])
             /\ Report("claim_payout", "Transferring")
             /\ UNCHANGED <<global_state, markets, balances, now, overflow_checks, paid>>

claim_payout_transfer ==
    LET call == in_flight[Len(in_flight)]
    IN  /\ in_flight' = SubSeq(in_flight, 1, Len(in_flight) - 1)
        /\ IF call.from = Vault(call.market) /\ TransferOk(call.from, call.payout)
           THEN /\ balances' = Transfer(call.from, Wallet(call.bettor), call.payout)
                /\ bets' = [bets EXCEPT ![call.bet].claimed = TRUE]
                /\ paid' = [paid EXCEPT ![call.market] = @ + call.payout]
                /\ Report("claim_payout", "Ok")
           ELSE /\ bets' = call.saved[1]
                /\ balances' = call.saved[2]
                /\ paid' = call.saved[3]
                /\ Report("claim_payout", "TransferFailed")
        /\ UNCHANGED <<global_state, markets, now, overflow_checks>>

(* -------------------------------- clock ------------------------------- *)
Tick ==
    /\ now < MaxTime
    /\ now' = now + 1
    /\ UNCHANGED <<accounts, overflow_checks, paid, in_flight, result>>

(* ------------------------- callers and Next -------------------------- *)
\* The steps draw the instructions' inputs; cap bounds the accounts created.
CreateMarketIn(cap, authorities, counts, times, min_bets) ==
    /\ Cardinality(DOMAIN markets) < cap
    /\ \E authority \in authorities, n \in counts, t \in times, min_bet \in min_bets :
          create_market(authority, n, t, min_bet)

PlaceBetIn(cap, indexes, amounts, destinations) ==
    /\ Len(bets) < cap
    /\ \E m \in DOMAIN markets, bettor \in Keys, i \in indexes, amount \in amounts,
          to \in destinations :
          place_bet(m, bettor, i, amount, to)

ResolveMarketIn(indexes) ==
    \E m \in DOMAIN markets, signer \in Keys, i \in indexes :
        resolve_market(m, signer, i)

ClaimPayoutIn(sources) ==
    \E b \in DOMAIN bets, m \in DOMAIN markets, signer \in Keys, from \in sources :
        claim_payout(b, m, signer, from)

\* One market, every input varied; a deposit goes to the market's vault or
\* to the funded signer's own token account.
Next ==
    \/ CreateMarketIn(1, Keys, OutcomeCounts, ResolutionTimes, MinBets)
    \/ PlaceBetIn(MaxBets, OutcomeIndexes, Amounts, {Wallet("alice"), Vault(0)})
    \/ ResolveMarketIn(OutcomeIndexes)
    \/ ClaimPayoutIn({Wallet("alice"), Vault(0)})
    \/ Tick

Spec == Init /\ [][Next]_vars

\* MaxMarkets markets of two outcomes each, with the deposits made to the vaults.
NextMarkets ==
    \/ CreateMarketIn(MaxMarkets, {"alice"}, {2}, ResolutionTimes, {1})
    \/ PlaceBetIn(MaxBets, {0, 1}, Amounts \ {0}, Vaults)
    \/ ResolveMarketIn({0, 1})
    \/ ClaimPayoutIn(Vaults)
    \/ Tick

SpecMarkets == Init /\ [][NextMarkets]_vars

\* MaxMarkets markets and one bet more, with a deposit going to the first
\* market's vault or staying in the funded signer's own token account.
NextPayout ==
    \/ CreateMarketIn(MaxMarkets, {"alice"}, {2}, {1}, {1})
    \/ PlaceBetIn(MaxBets + 1, {0, 1}, Amounts \ {0}, {Wallet("alice"), Vault(0)})
    \/ ResolveMarketIn({0, 1})
    \/ ClaimPayoutIn(Vaults)
    \/ Tick

SpecPayout == Init /\ [][NextPayout]_vars

\* a claim_payout starts: its checks run and its transfer is invoked
ClaimPayoutEnterIn(sources) ==
    /\ in_flight = <<>>
    /\ \E b \in DOMAIN bets, m \in DOMAIN markets, signer \in Keys, from \in sources :
          claim_payout_enter(b, m, signer, from)

\* the transfer in progress returns
ClaimPayoutTransfer == in_flight # <<>> /\ claim_payout_transfer

\* MaxMarkets markets, with another claim_payout running while the transfer
\* of a claim_payout is in progress.
NextReentrant ==
    \/ in_flight = <<>> /\ CreateMarketIn(MaxMarkets, {"alice"}, {2}, {1}, {1})
    \/ in_flight = <<>> /\ PlaceBetIn(MaxBets, {0, 1}, Amounts \ {0}, Vaults)
    \/ in_flight = <<>> /\ ResolveMarketIn({0, 1})
    \/ in_flight = <<>> /\ Tick
    \/ ClaimPayoutEnterIn(Vaults)
    \/ in_flight # <<>> /\ ClaimPayoutIn(Vaults)
    \/ ClaimPayoutTransfer

SpecReentrant == Init /\ [][NextReentrant]_vars

(* ====================================================================== *)
(*                               Claims                                   *)
(* ====================================================================== *)
\* the four error kinds of place_bet's preconditions, and create_market's three
PlaceBetErrors == {"MarketResolved", "BettingClosed", "BetTooSmall", "InvalidOutcome"}
CreateMarketErrors == {"InsufficientOutcomes", "TooManyOutcomes", "InvalidResolutionTime"}

\* a step of instruction op: it reports op and leaves the clock alone
StepOf(op) == result'.op = op /\ now' = now

(* C1: in every reachable state, for every Market, total_pool equals the   *)
(* sum of all entries of outcome_pools.                                    *)
C1_TotalPoolIsSum ==
    \A m \in DOMAIN markets :
        markets[m].total_pool = SumSeq(markets[m].outcome_pools)

\* what the code does keep: the equality modulo 2^64, and the equality itself
\* in a build that checks arithmetic overflow
C1_TotalPoolIsSumModulo ==
    \A m \in DOMAIN markets :
        /\ markets[m].total_pool = SumSeq(markets[m].outcome_pools) % U64Mod
        /\ overflow_checks => C1_TotalPoolIsSum

(* C2: claim_payout succeeds at most once on a WagerRecord: once a claim   *)
(* on it has succeeded (its claimed flag is set), every later claim_payout *)
(* on the same record fails with AlreadyClaimed and transfers nothing.     *)
C2_SecondClaimAlreadyClaimed ==
    [][StepOf("claim_payout") =>
       \A b \in DOMAIN bets, m \in DOMAIN markets, signer \in Keys, from \in TokenAccounts :
         (bets[b].claimed /\ claim_payout(b, m, signer, from))
            => (result'.err = "AlreadyClaimed" /\ balances' = balances)]_vars

\* what the code does keep: a claimed record is never paid again
C2_AtMostOnce ==
    [][StepOf("claim_payout") =>
       \A b \in DOMAIN bets, m \in DOMAIN markets, signer \in Keys, from \in TokenAccounts :
         (bets[b].claimed /\ claim_payout(b, m, signer, from))
            => (result'.err \in {"MarketNotResolved", "AlreadyClaimed"}
                /\ UNCHANGED <<accounts, paid>>)]_vars

\* the wagers placed on market m's winning outcome
WinningWagers(m) ==
    {b \in DOMAIN bets :
        bets[b].market = m /\ bets[b].outcome_index = markets[m].winning_outcome}

(* C3: for every resolved market the payouts paid by the successful        *)
(* claim_payout calls made against it never exceed its total_pool; and     *)
(* when every wager placed on its winning outcome has been claimed,        *)
(* total_pool minus that sum is at most (number of winning wagers - 1),    *)
(* there being at least one such wager.                                   *)
C3_Conservation ==
    \A m \in DOMAIN markets :
        markets[m].resolved =>
            /\ paid[m] <= markets[m].total_pool
            /\ (WinningWagers(m) # {} /\ \A b \in WinningWagers(m) : bets[b].claimed)
                  => markets[m].total_pool - paid[m] <= Cardinality(WinningWagers(m)) - 1

(* C4: claim_payout(market, wager, claimant) succeeds only if market is    *)
(* the Market stored in the wager's market reference at place_bet time.    *)
C4_ClaimAgainstOwnMarket ==
    [][StepOf("claim_payout") =>
       \A b \in DOMAIN bets, m \in DOMAIN markets, signer \in Keys, from \in TokenAccounts :
         (claim_payout(b, m, signer, from) /\ result'.err = "Ok")
            => bets[b].market = m]_vars

\* the step is a create_market that succeeds
CreateMarketSucceeds ==
    /\ StepOf("create_market")
    /\ \E authority \in Keys, n \in OutcomeCounts, t \in ResolutionTimes, min_bet \in MinBets :
          create_market(authority, n, t, min_bet) /\ result'.err = "Ok"

\* market_count moves by +1 with a successful create_market, and only then
C5_CountStep ==
    IF CreateMarketSucceeds
    THEN /\ global_state'.market_count = global_state.market_count + 1
         /\ \E k \in DOMAIN markets' \ DOMAIN markets :
               /\ DOMAIN markets' = DOMAIN markets \cup {k}
               /\ markets'[k].market_id = global_state.market_count
    ELSE /\ global_state'.market_count = global_state.market_count
         /\ DOMAIN markets' = DOMAIN markets

\* no two markets share a market_id
C5_UniqueIds ==
    \A m1, m2 \in DOMAIN markets :
        m1 # m2 => markets[m1].market_id # markets[m2].market_id

(* C5: market_count increases by exactly 1 on every successful             *)
(* create_market and is changed by no other operation; the market_id of    *)
(* each created market is the market_count value before the increment, so  *)
(* no two markets ever share a market_id.                                  *)
C5_MarketCount == [][C5_CountStep]_vars /\ []C5_UniqueIds

\* witness of C5: two markets created, market_count = 2
C5_Witness ==
    /\ Cardinality(DOMAIN markets) = 2
    /\ global_state.market_count = 2
    /\ result = [op |-> "create_market", err |-> "Ok"]

\* place_bet at the deadline is refused; a bet is accepted only before it
C6_PlaceBetStep ==
    StepOf("place_bet") =>
    \A m \in DOMAIN markets, bettor \in Keys, i \in OutcomeIndexes, amount \in Amounts,
       to \in TokenAccounts :
        place_bet(m, bettor, i, amount, to) =>
            /\ (~markets[m].resolved /\ now = markets[m].resolution_time)
                  => result'.err = "BettingClosed"
            /\ result'.err = "Ok" => now < markets[m].resolution_time

\* resolve_market at the deadline succeeds; none succeeds before it
C6_ResolveStep ==
    StepOf("resolve_market") =>
    \A m \in DOMAIN markets, signer \in Keys, i \in OutcomeIndexes :
        resolve_market(m, signer, i) =>
            /\ ( /\ now = markets[m].resolution_time
                 /\ ~markets[m].resolved
                 /\ signer = markets[m].authority
                 /\ i < Len(markets[m].outcomes) )
                  => (result'.err = "Ok" /\ markets'[m].resolved)
            /\ result'.err = "Ok" => now >= markets[m].resolution_time

(* C6: at current time exactly equal to the deadline, place_bet on an      *)
(* unresolved market fails with BettingClosed and resolve_market by the    *)
(* authority with an in-range index on an unresolved market succeeds; a    *)
(* bet is accepted only when now < deadline and a resolution only when     *)
(* now >= deadline.                                                        *)
C6_DeadlineBoundary == [][C6_PlaceBetStep /\ C6_ResolveStep]_vars

\* witness of C6: a bet was refused at the deadline of an unresolved market
C6_Witness ==
    /\ result = [op |-> "place_bet", err |-> "BettingClosed"]
    /\ \E m \in DOMAIN markets :
          ~markets[m].resolved /\ now = markets[m].resolution_time

\* winning_outcome is absent exactly while unresolved, and in range afterwards
C7_WinningOutcomeShape ==
    \A m \in DOMAIN markets :
        /\ ~markets[m].resolved <=> markets[m].winning_outcome = None
        /\ markets[m].resolved =>
              markets[m].winning_outcome \in 0..(Len(markets[m].outcomes) - 1)

\* resolved and winning_outcome never change again; re-resolution is refused
C7_Step ==
    /\ \A m \in DOMAIN markets :
          markets[m].resolved =>
              /\ markets'[m].resolved
              /\ markets'[m].winning_outcome = markets[m].winning_outcome
    /\ StepOf("resolve_market") =>
          \A m \in DOMAIN markets, signer \in Keys, i \in OutcomeIndexes :
          ( /\ resolve_market(m, signer, i)
            /\ markets[m].resolved
            /\ signer = markets[m].authority )
              => result'.err = "MarketAlreadyResolved"

(* C7: resolution is one-way and terminal: a resolved market stays         *)
(* resolved, winning_outcome is absent exactly while resolved is false and *)
(* afterwards is one fixed index below the number of outcomes, and a       *)
(* further resolve_market by the authority fails with                      *)
(* MarketAlreadyResolved.                                                  *)
C7_ResolutionIsTerminal == []C7_WinningOutcomeShape /\ [][C7_Step]_vars

\* witness of C7: a second resolution by the authority was refused
C7_Witness ==
    /\ result = [op |-> "resolve_market", err |-> "MarketAlreadyResolved"]
    /\ \E m \in DOMAIN markets : markets[m].resolved

\* a resolve_market step by a signer other than the authority
C8_Step ==
    StepOf("resolve_market") =>
    \A m \in DOMAIN markets, signer \in Keys, i \in OutcomeIndexes :
        (resolve_market(m, signer, i) /\ signer # markets[m].authority) =>
            /\ result'.err = "Unauthorized"
            /\ UNCHANGED <<accounts, paid>>
            /\ ~markets[m].resolved =>
                  (~markets'[m].resolved /\ markets'[m].winning_outcome = None)

(* C8: resolve_market called by any identity other than the market's       *)
(* authority fails with Unauthorized and leaves the market as it was (an   *)
(* unresolved market stays unresolved, its winning_outcome absent),        *)
(* whatever the time, the index and the market's state.                    *)
C8_OnlyAuthorityResolves == [][C8_Step]_vars

\* witness of C8: a stranger tried to resolve a market that could be resolved
C8_Witness ==
    /\ result = [op |-> "resolve_market", err |-> "Unauthorized"]
    /\ \E m \in DOMAIN markets :
          ~markets[m].resolved /\ now >= markets[m].resolution_time

\* a place_bet step, by the preconditions its inputs violate
C9_Step ==
    StepOf("place_bet") =>
    \A m \in DOMAIN markets, bettor \in Keys, i \in OutcomeIndexes, amount \in Amounts,
       to \in TokenAccounts :
        place_bet(m, bettor, i, amount, to) =>
            LET resolved == markets[m].resolved
                closed   == now >= markets[m].resolution_time
                small    == amount < markets[m].min_bet
                invalid  == i >= Len(markets[m].outcomes)
            IN  /\ (resolved \/ closed \/ small \/ invalid) =>
                      /\ result'.err \in PlaceBetErrors
                      /\ UNCHANGED <<accounts, paid>>
                /\ result'.err = "MarketResolved" => resolved
                /\ result'.err = "BettingClosed" => closed
                /\ result'.err = "BetTooSmall" => small
                /\ result'.err = "InvalidOutcome" => invalid

(* C9: a place_bet that violates a precondition fails with the error of a  *)
(* violated precondition (market resolved: MarketResolved, now >= deadline:*)
(* BettingClosed, amount < min_bet: BetTooSmall, index out of range:       *)
(* InvalidOutcome) and changes no state: pools, total_pool, the bets and   *)
(* every balance are as before the call.                                   *)
C9_FailedBetChangesNothing == [][C9_Step]_vars

\* witness of C9: a bet below the minimum was refused after another was accepted
C9_Witness ==
    /\ result = [op |-> "place_bet", err |-> "BetTooSmall"]
    /\ bets # <<>>

\* a create_market step, by the preconditions its inputs violate
C10_Step ==
    StepOf("create_market") =>
    \A authority \in Keys, n \in OutcomeCounts, t \in ResolutionTimes, min_bet \in MinBets :
        create_market(authority, n, t, min_bet) =>
            /\ n < 2 => result'.err = "InsufficientOutcomes"
            /\ n > 10 => result'.err = "TooManyOutcomes"
            /\ (n >= 2 /\ n <= 10 /\ t <= now) => result'.err = "InvalidResolutionTime"
            /\ (n < 2 \/ n > 10 \/ t <= now) =>
                  /\ result'.err \in CreateMarketErrors
                  /\ markets' = markets
                  /\ global_state' = global_state

\* every market has 2 to 10 outcomes and as many pools
C10_MarketShape ==
    \A m \in DOMAIN markets :
        /\ Len(markets[m].outcomes) >= 2
        /\ Len(markets[m].outcomes) <= 10
        /\ Len(markets[m].outcome_pools) = Len(markets[m].outcomes)

(* C10: create_market with fewer than 2 outcomes fails with                *)
(* InsufficientOutcomes, with more than 10 with TooManyOutcomes, and (the  *)
(* number of outcomes being accepted) with a resolution time not strictly  *)
(* after the current time with InvalidResolutionTime; after any of these   *)
(* failures no new Market exists and market_count is unchanged.  Every     *)
(* market has between 2 and 10 outcomes and as many outcome_pools.         *)
C10_CreateMarketValidation == [][C10_Step]_vars /\ []C10_MarketShape

\* witness of C10: a market of 11 outcomes was refused and nothing was created
C10_Witness ==
    /\ result = [op |-> "create_market", err |-> "TooManyOutcomes"]
    /\ markets = <<>>
    /\ global_state.market_count = 0

(* C11: for every successful claim_payout the amount transferred to the    *)
(* claimant equals floor(wager.amount * market.total_pool / winning_pool), *)
(* winning_pool being market.outcome_pools[winning_outcome]: the quotient  *)
(* is not truncated when narrowed back to 64 bits.                         *)
C11_PayoutExact ==
    [][StepOf("claim_payout") =>
       \A b \in DOMAIN bets, m \in DOMAIN markets, signer \in Keys, from \in TokenAccounts :
         (claim_payout(b, m, signer, from) /\ result'.err = "Ok")
            => balances'[Wallet(signer)] - balances[Wallet(signer)]
                 = (bets[b].amount * markets[m].total_pool)
                     \div markets[m].outcome_pools[markets[m].winning_outcome + 1]]_vars

\* what the code does keep: the payout is exact when the wager is claimed
\* against its own market and no pool has wrapped
C11_PayoutExactOwnMarket ==
    [][StepOf("claim_payout") =>
       \A b \in DOMAIN bets, m \in DOMAIN markets, signer \in Keys, from \in TokenAccounts :
         ( /\ claim_payout(b, m, signer, from)
           /\ result'.err = "Ok"
           /\ bets[b].market = m
           /\ overflow_checks )
            => balances'[Wallet(signer)] - balances[Wallet(signer)]
                 = (bets[b].amount * markets[m].total_pool)
                     \div markets[m].outcome_pools[markets[m].winning_outcome + 1]]_vars

\* the five error kinds of claim_payout's preconditions
ClaimPayoutErrors ==
    {"Unauthorized", "MarketNotResolved", "AlreadyClaimed", "LosingBet", "NoPayoutAvailable"}

\* a claim_payout step, by the preconditions its inputs violate
C12_Step ==
    StepOf("claim_payout") =>
    \A b \in DOMAIN bets, m \in DOMAIN markets, signer \in Keys, from \in TokenAccounts :
        claim_payout(b, m, signer, from) =>
            LET unresolved == ~markets[m].resolved
                claimed    == bets[b].claimed
                stranger   == signer # bets[b].bettor
                losing     == bets[b].outcome_index # markets[m].winning_outcome
                pool       == markets[m].outcome_pools[markets[m].winning_outcome + 1]
                nothing    == IF pool > 0
                              THEN ((bets[b].amount * markets[m].total_pool) \div pool)
                                      % U64Mod = 0
                              ELSE TRUE
            IN  /\ result'.err = "Ok" =>
                      ~unresolved /\ ~claimed /\ ~stranger /\ ~losing /\ ~nothing
                /\ result'.err = "MarketNotResolved" => unresolved
                /\ result'.err = "AlreadyClaimed" => claimed
                /\ result'.err = "Unauthorized" => stranger
                /\ result'.err = "LosingBet" => ~unresolved /\ losing
                /\ result'.err = "NoPayoutAvailable" => ~unresolved /\ ~losing /\ nothing
                /\ (unresolved \/ claimed \/ stranger \/ losing) =>
                      result'.err \in ClaimPayoutErrors
                /\ result'.err # "Ok" =>
                      /\ bets' = bets
                      /\ balances' = balances
                      /\ UNCHANGED <<markets, global_state, paid>>

(* C12: claim_payout succeeds only if the market is resolved, the wager is *)
(* unclaimed, the claimant is the wager's owner, the wager's outcome_index *)
(* is the market's winning_outcome and the computed payout is positive; a  *)
(* claim that violates one of them fails with the error of a violated      *)
(* condition (MarketNotResolved, AlreadyClaimed, Unauthorized, LosingBet,  *)
(* NoPayoutAvailable); after every failing claim the claimed flags and     *)
(* every balance are as before the call.                                   *)
C12_ClaimValidation == [][C12_Step]_vars

\* witness of C12: a claim on a losing wager was refused while the vault held
\* the stakes and another wager had been paid
C12_Witness ==
    /\ result = [op |-> "claim_payout", err |-> "LosingBet"]
    /\ \E m \in DOMAIN markets, b1, b2 \in DOMAIN bets :
          /\ markets[m].resolved
          /\ bets[b1].claimed
          /\ ~bets[b2].claimed
          /\ bets[b2].outcome_index # markets[m].winning_outcome

\* the sum of the accepted stakes on outcome i of market m
Staked(m, i) ==
    SumSeq([b \in DOMAIN bets |->
              IF bets[b].market = m /\ bets[b].outcome_index = i
              THEN bets[b].amount ELSE 0])

\* the sum of the accepted stakes on market m
StakedOn(m) ==
    SumSeq([b \in DOMAIN bets |-> IF bets[b].market = m THEN bets[b].amount ELSE 0])

(* C13: the pool counters never overflow: for every market each            *)
(* outcome_pools[i] and total_pool equal the unbounded sums of the         *)
(* accepted stakes; and market_count, the number of markets created,       *)
(* never wraps.                                                            *)
C13_NoOverflow ==
    /\ \A m \in DOMAIN markets :
          /\ markets[m].total_pool = StakedOn(m)
          /\ \A i \in 0..(Len(markets[m].outcome_pools) - 1) :
                markets[m].outcome_pools[i + 1] = Staked(m, i)
    /\ global_state.market_count = Cardinality(DOMAIN markets)

\* what the code does keep: the counters are exact in a build that checks
\* arithmetic overflow, where the overflowing place_bet panics
C13_NoOverflowWhenChecked == overflow_checks => C13_NoOverflow

\* the pool of the winning outcome of the resolved market m
WinningPool(m) == markets[m].outcome_pools[markets[m].winning_outcome + 1]

\* every winning wager of a resolved market is positive and within the winning pool
C14_PoolCoversWager ==
    \A m \in DOMAIN markets :
        markets[m].resolved =>
            \A b \in WinningWagers(m) :
                WinningPool(m) >= bets[b].amount /\ bets[b].amount > 0

\* no claim on a winning wager of the market ends in NoPayoutAvailable
C14_Step ==
    StepOf("claim_payout") =>
    \A b \in DOMAIN bets, m \in DOMAIN markets, signer \in Keys, from \in TokenAccounts :
        ( /\ claim_payout(b, m, signer, from)
          /\ markets[m].resolved
          /\ b \in WinningWagers(m) )
            => result'.err # "NoPayoutAvailable"

(* C14: for every resolved market and every wager of that market placed on *)
(* the winning outcome, winning_pool >= wager.amount > 0, so that a claim  *)
(* on a winning wager never takes the winning_pool == 0 branch and never   *)
(* fails with NoPayoutAvailable.                                           *)
C14_WinningPoolPositive == []C14_PoolCoversWager /\ [][C14_Step]_vars

\* every record whose transfer is in progress is already marked claimed
C15_ClaimedWhileInFlight ==
    \A i \in DOMAIN in_flight : bets[in_flight[i].bet].claimed

\* a claim_payout invokes its transfer: the record was unclaimed, is now marked
\* claimed, and nothing has been transferred yet
C15_EnterStep ==
    Len(in_flight') > Len(in_flight) =>
        LET call == in_flight'[Len(in_flight')]
        IN  /\ ~bets[call.bet].claimed
            /\ bets'[call.bet].claimed
            /\ balances' = balances

\* a claim_payout that runs while a transfer is in progress, on the record of
\* that transfer
C15_ReentrantStep ==
    (in_flight # <<>> /\ in_flight' = in_flight /\ StepOf("claim_payout")) =>
    \A b \in DOMAIN bets, m \in DOMAIN markets, signer \in Keys, from \in TokenAccounts :
        ( /\ claim_payout(b, m, signer, from)
          /\ \E i \in DOMAIN in_flight : in_flight[i].bet = b )
            => /\ result'.err # "Ok"
               /\ UNCHANGED <<accounts, paid>>
               /\ (\E i \in DOMAIN in_flight :
                      in_flight[i].bet = b /\ in_flight[i].market = m)
                     => result'.err = "AlreadyClaimed"

C16_Step ==
    StepOf("place_bet") =>
    \A m \in DOMAIN markets, bettor \in Keys, i \in OutcomeIndexes, amount \in Amounts,
       to \in TokenAccounts :
        place_bet(m, bettor, i, amount, to) =>
            LET valid  == /\ ~markets[m].resolved
                          /\ now < markets[m].resolution_time
                          /\ amount >= markets[m].min_bet
                          /\ i < Len(markets[m].outcomes)
                from   == Wallet(bettor)
                funded == balances[from] >= amount
            IN  /\ (valid /\ ~funded) =>
                      /\ result'.err # "Ok"
                      /\ bets' = bets
                      /\ markets' = markets
                      /\ balances' = balances
                /\ result'.err = "Ok" =>
                      /\ funded
                      /\ Len(bets') = Len(bets) + 1
                      /\ bets'[Len(bets')].amount = amount
                      /\ bets'[Len(bets')].bettor = bettor
                      /\ balances' = IF to = from THEN balances
                                     ELSE [balances EXCEPT ![from] = @ - amount,
                                                           ![to] = @ + amount]

\* bet accounts are created by successful place_bet calls only
C16_RecordStep ==
    bets' # bets /\ Len(bets') # Len(bets) =>
        /\ result' = [op |-> "place_bet", err |-> "Ok"]
        /\ Len(bets') = Len(bets) + 1

(* C16: when the deposit transfer of a place_bet that passed every         *)
(* validation fails, the operation fails and leaves the market untouched   *)
(* (pools, total_pool and balances unchanged, no bet account created);     *)
(* and every bet account is created by a place_bet whose transfer of       *)
(* exactly the bet's amount out of the bettor's token account succeeded.   *)
C16_NoBetWithoutDeposit == [][C16_Step /\ C16_RecordStep]_vars

\* witness of C16: a valid bet of a bettor without the funds was refused
\* after another bet had been accepted
C16_Witness ==
    /\ result = [op |-> "place_bet", err |-> "TransferFailed"]
    /\ bets # <<>>
    /\ \E m \in DOMAIN markets : ~markets[m].resolved /\ now < markets[m].resolution_time

\* a resolve_market step that succeeds
C17_Step ==
    (StepOf("resolve_market") /\ result'.err = "Ok") =>
        /\ bets' = bets
        /\ balances' = balances
        /\ global_state' = global_state
        /\ DOMAIN markets' = DOMAIN markets
        /\ \A m \in DOMAIN markets :
              [markets'[m] EXCEPT !.resolved = markets[m].resolved,
                                  !.winning_outcome = markets[m].winning_outcome]
                 = markets[m]
        /\ \E m \in DOMAIN markets :
              /\ ~markets[m].resolved
              /\ markets'[m].resolved
              /\ \A other \in DOMAIN markets \ {m} : markets'[other] = markets[other]

(* C17: a successful resolve_market changes only the resolved flag and the *)
(* winning_outcome of its market: outcome_pools, total_pool, outcomes,     *)
(* min_bet, resolution_time, authority and market_id of that market, every *)
(* other market, every bet account, market_count and every balance are     *)
(* unchanged by it.                                                        *)
C17_ResolveFrame == [][C17_Step]_vars

\* witness of C17: a market holding stakes has just been resolved
C17_Witness ==
    /\ result = [op |-> "resolve_market", err |-> "Ok"]
    /\ bets # <<>>
    /\ \E m \in DOMAIN markets :
          markets[m].resolved /\ markets[m].total_pool > 0 /\ balances[Vault(m)] > 0

\* a resolved market is never written again; bets are accepted on unresolved
\* markets only; claim_payout writes no market
C18_Step ==
    /\ \A m \in DOMAIN markets :
          markets[m].resolved =>
              /\ m \in DOMAIN markets'
              /\ markets'[m].outcome_pools = markets[m].outcome_pools
              /\ markets'[m].total_pool = markets[m].total_pool
              /\ markets'[m].winning_outcome = markets[m].winning_outcome
    /\ StepOf("place_bet") =>
          \A m \in DOMAIN markets, bettor \in Keys, i \in OutcomeIndexes, amount \in Amounts,
             to \in TokenAccounts :
              (place_bet(m, bettor, i, amount, to) /\ markets[m].resolved)
                 => (result'.err # "Ok" /\ bets' = bets)
    /\ StepOf("claim_payout") => markets' = markets

(* C18: once a market is resolved its pool totals are frozen: no place_bet *)
(* on it succeeds any more, claim_payout never modifies a market, and so   *)
(* outcome_pools, total_pool and winning_outcome keep the values they had  *)
(* at resolution, whatever the order of the claims.                        *)
C18_PoolsFrozen == [][C18_Step]_vars

\* witness of C18: after a claim was paid, a bet on a resolved market was refused
C18_Witness ==
    /\ result = [op |-> "place_bet", err |-> "MarketResolved"]
    /\ \E b \in DOMAIN bets : bets[b].claimed
    /\ \E m \in DOMAIN markets : markets[m].resolved /\ paid[m] > 0

\* the payouts market m still owes to the unclaimed wagers on its winning outcome
Owed(m) ==
    SumSeq([b \in DOMAIN bets |->
              IF /\ bets[b].market = m
                 /\ bets[b].outcome_index = markets[m].winning_outcome
                 /\ ~bets[b].claimed
              THEN Payout(markets[m], bets[b]) ELSE 0])

(* C19: vault solvency: for every market the value of its escrow vault,    *)
(* the deposits of its accepted wagers minus the payouts transferred out   *)
(* of it, is never negative and, once the market is resolved, is at least  *)
(* the sum of the payouts still owed to its unclaimed winning wagers.      *)
C19_VaultSolvent ==
    \A m \in DOMAIN markets :
        /\ StakedOn(m) - paid[m] >= 0
        /\ markets[m].resolved => StakedOn(m) - paid[m] >= Owed(m)

\* market m is resolved to an outcome nobody has staked on
EmptyWinner(m) == markets[m].resolved /\ WinningPool(m) = 0

\* resolve_market accepts an outcome whose pool is empty
C20_ResolveStep ==
    StepOf("resolve_market") =>
       \A m \in DOMAIN markets, signer \in Keys, i \in OutcomeIndexes :
         ( /\ resolve_market(m, signer, i)
           /\ signer = markets[m].authority
           /\ ~markets[m].resolved
           /\ now >= markets[m].resolution_time
           /\ i < Len(markets[m].outcome_pools)
           /\ markets[m].outcome_pools[i + 1] = 0 )
            => (result'.err = "Ok" /\ EmptyWinner(m)')

\* the vault of a market resolved to an empty outcome is never debited again
C20_VaultStep ==
    \A m \in DOMAIN markets :
        EmptyWinner(m) => (EmptyWinner(m)' /\ balances'[Vault(m)] >= balances[Vault(m)])

\* every claim against a market resolved to an empty outcome fails with one of errors
C20_ClaimStep(errors) ==
    StepOf("claim_payout") =>
       \A b \in DOMAIN bets, m \in DOMAIN markets, signer \in Keys, from \in TokenAccounts :
         (claim_payout(b, m, signer, from) /\ EmptyWinner(m))
            => (result'.err \in errors /\ UNCHANGED <<accounts, paid>>)

====
